---- MODULE Spec2Model ----
(***************************************************************************)
(* Model of the wiki-template parsing engine of mt-snow/tableparser:       *)
(*   - wikiapi/api.py : _Template.finditer (delimiter scanner + finder),   *)
(*     _Template._get_name_and_params (parameter splitter),                *)
(*     _Template.__init__ / source / __contains__ / __getitem__ / get      *)
(*     (template value), _make_filter;                                     *)
(*   - wikisearch.py : _Wikipage.parse_infoboxes2 + check_template_name    *)
(*     (infobox chain resolver);                                           *)
(*   - tableparser.py : Table (_parse_table, _add_cells, get_title), Cell. *)
(* Texts are sequences of one-character strings; positions are Python's    *)
(* zero-based indices.                                                     *)
(***************************************************************************)
EXTENDS Integers, Sequences, FiniteSets, TLC

VARIABLES
    \* ---- _Template.finditer (wikiapi/api.py) ----
    source,              \* the text buffer handed to finditer
    name_arg,            \* the `name` argument of finditer (the name filter)
    tmpl,                \* a Template built from (name, params), or NoTemplate
    gen,                 \* position of the generator: new/created/scan/emit/done/raised
    raised,              \* the exception that ended the generator, "" if none
    char_iter,           \* index of the next pair char_iter will deliver
    unclosed_templates,  \* stack of start positions of open delimiters
    closed_templates,    \* list of slices <<start, stop>> closed so far
    temp_idx,            \* position of `for temp in closed_templates`
    yielded,             \* the Template values yielded so far
    \* ---- _Template(source) / .source (wikiapi/api.py) ----
    arg,                 \* the text handed to the constructor
    obj,                 \* the constructed Template value, or the error
    canon,               \* the text synthesized from (obj.name, obj params)
    looked,              \* a key and what `in`, [] and get() gave for it
    \* ---- _Wikipage.parse_infoboxes2 (wikisearch.py) ----
    provider,            \* title -> what the external lookup does with it
    boxes,               \* names of the template matches still to be visited
    pc,                  \* idle / loop / resolved
    template_name,       \* the name of the box under resolution
    name,                \* the loop variable `name`
    check_templates,     \* names visited in the current chain
    non_infobox_templates, \* the negative cache
    infobox_flag,        \* outcome of the current resolution
    fetches,             \* provider calls of the current resolution
    results,             \* outcomes of the finished resolutions, in order
    \* ---- Table (tableparser.py) ----
    soup,                \* the <table> tag handed to Table, with its neighbours
    table_map,           \* (y, x) -> Cell
    table_size,          \* (rows, columns)
    tpc,                 \* position of the table: new/parsed/titled
    length,              \* the `length` argument of get_title
    return_txt           \* what get_title gave back

finderVars == <<source, name_arg, tmpl, gen, raised, char_iter,
                unclosed_templates, closed_templates, temp_idx, yielded>>
templateVars == <<arg, obj, canon, looked>>
resolverVars == <<provider, boxes, pc, template_name, name, check_templates,
                  non_infobox_templates, infobox_flag, fetches, results>>
tableVars == <<soup, table_map, table_size, tpc, length, return_txt>>
vars == <<finderVars, templateVars, resolverVars, tableVars>>

----------------------------------------------------------------------------
\* Bounds

MaxSourceLen == 7
MaxInteriorLen == 4
MaxParams == 2
MaxBoxes == 2
MaxFetches == 5
MaxCells == 2
MaxLength == 5

----------------------------------------------------------------------------
\* Text helpers

Whitespace == {" ", "\n", "\t"}

\* s[a:b] of Python for 0 <= a, b
Slice(s, a, b) ==
    LET hi == IF b > Len(s) THEN Len(s) ELSE b
    IN IF a >= hi THEN <<>> ELSE SubSeq(s, a + 1, hi)

RECURSIVE lstrip(_)
lstrip(s) ==
    IF s # <<>> /\ s[1] \in Whitespace THEN lstrip(Tail(s)) ELSE s

RECURSIVE rstrip(_)
rstrip(s) ==
    IF s # <<>> /\ s[Len(s)] \in Whitespace
    THEN rstrip(SubSeq(s, 1, Len(s) - 1)) ELSE s

strip(s) == rstrip(lstrip(s))

Digits == <<"0", "1", "2", "3", "4", "5", "6", "7", "8", "9">>

\* str(n) for n >= 0
RECURSIVE str(_)
str(n) ==
    IF n < 10 THEN <<Digits[n + 1]>>
    ELSE str(n \div 10) \o <<Digits[(n % 10) + 1]>>

DigitValue(c) == CHOOSE d \in 0..9 : Digits[d + 1] = c

IsDigits(s) == s # <<>> /\ \A i \in 1..Len(s) : \E d \in 1..10 : Digits[d] = s[i]

\* int(s) for a string of decimal digits
RECURSIVE int(_)
int(s) ==
    IF Len(s) = 1 THEN DigitValue(s[1])
    ELSE 10 * int(SubSeq(s, 1, Len(s) - 1)) + DigitValue(s[Len(s)])

\* all texts over alphabet A of length at most n
Texts(A, n) == UNION {[1..k -> A] : k \in 0..n}

----------------------------------------------------------------------------
\* Parameter splitter: _Template._get_name_and_params (wikiapi/api.py)

\* the local `key` of _split_params: None, or a string
NoKey == [none |-> TRUE, s |-> <<>>]
Key(s) == [none |-> FALSE, s |-> s]

\* Python's `not key`
NotKey(key) == key.none \/ key.s = <<>>

\* Python's `key == ''`
IsEmptyKey(key) == ~key.none /\ key.s = <<>>

\* `if char == nest[-1]`: the test that pops one level of nesting
NestCloses(char, nest) == char = nest[Len(nest)]

\* `elif char in '{['`: the test that pushes one level of nesting
NestOpens(char) == char \in {"{", "["}

\* one iteration of `for i, char in enumerate(text)`; st carries the locals
\* nest, key, start, counter and the pairs yielded so far (out)
SplitChar(text, i, st) ==
    LET char == text[i + 1] IN
    IF st.nest # <<>> THEN
        IF NestCloses(char, st.nest)
        THEN [st EXCEPT !.nest = SubSeq(st.nest, 1, Len(st.nest) - 1)]
        ELSE st
    ELSE IF char = "=" /\ NotKey(st.key) THEN
        [st EXCEPT !.key = Key(strip(Slice(text, st.start, i))),
                   !.start = i + 1]
    ELSE IF char = "|" THEN
        LET value == strip(Slice(text, st.start, i))
            positional == IsEmptyKey(st.key)
            key == IF positional THEN Key(str(st.counter)) ELSE st.key
        IN [st EXCEPT !.counter = IF positional THEN @ + 1 ELSE @,
                      !.out = Append(@, <<key, value>>),
                      !.start = i + 1,
                      !.key = Key(<<>>)]
    ELSE IF NestOpens(char) THEN
        [st EXCEPT !.nest = Append(@, char)]
    ELSE st

RECURSIVE SplitLoop(_, _, _)
SplitLoop(text, i, st) ==
    IF i >= Len(text) THEN st
    ELSE SplitLoop(text, i + 1, SplitChar(text, i, st))

\* the pairs (key, value) the generator _split_params(text) yields, in order
_split_params(text) ==
    LET st == SplitLoop(text, 0,
                  [nest |-> <<>>, key |-> NoKey, start |-> 0,
                   counter |-> 1, out |-> <<>>])
        value == strip(Slice(text, st.start, Len(text)))
        last == IF ~IsEmptyKey(st.key) THEN <<st.key, value>>
                ELSE <<Key(str(st.counter)), value>>
    IN Append(st.out, last)

\* the ordered map: a sequence of <<key, value>> with distinct keys
DictKeys(d) == {d[i][1] : i \in 1..Len(d)}

DictHas(d, k) == \E i \in 1..Len(d) : d[i][1] = k

DictGet(d, k) == d[CHOOSE i \in 1..Len(d) : d[i][1] = k][2]

\* d[k] = v of an OrderedDict: an existing key keeps its position
DictSet(d, k, v) ==
    IF DictHas(d, k)
    THEN [i \in 1..Len(d) |-> IF d[i][1] = k THEN <<k, v>> ELSE d[i]]
    ELSE Append(d, <<k, v>>)

\* OrderedDict(pairs)
RECURSIVE OrderedDict(_)
OrderedDict(pairs) ==
    IF pairs = <<>> THEN <<>>
    ELSE LET p == pairs[Len(pairs)]
         IN DictSet(OrderedDict(SubSeq(pairs, 1, Len(pairs) - 1)), p[1].s, p[2])

\* returns <<name, params>>: `next(gen)[1], OrderedDict(gen)`
_get_name_and_params(src) ==
    LET contents == Slice(src, 2, Len(src) - 2)
        pairs == _split_params(contents)
    IN <<pairs[1][2], OrderedDict(Tail(pairs))>>

----------------------------------------------------------------------------
\* Template value: _Template.__init__ and _Template.source (wikiapi/api.py)

IsBrace(c) == c \in {"{", "}"}

\* TEMPLATE_REGEX, (?<quote>\{\{(?:[^{}]|(?&quote))*\}\}): the position after
\* the quote group whose interior is being read at p with `depth` groups
\* open, or -1 when the pattern cannot match
RECURSIVE QuoteEnd(_, _, _)
QuoteEnd(s, p, depth) ==
    IF depth = 0 THEN p
    ELSE IF p >= Len(s) THEN -1
    ELSE IF p + 1 < Len(s) /\ s[p + 1] = "{" /\ s[p + 2] = "{"
         THEN QuoteEnd(s, p + 2, depth + 1)
    ELSE IF p + 1 < Len(s) /\ s[p + 1] = "}" /\ s[p + 2] = "}"
         THEN QuoteEnd(s, p + 2, depth - 1)
    ELSE IF IsBrace(s[p + 1]) THEN -1
    ELSE QuoteEnd(s, p + 1, depth)

\* TEMPLATE_REGEX.fullmatch(s) is not None
TemplateRegexFullmatch(s) ==
    /\ Len(s) >= 4
    /\ s[1] = "{" /\ s[2] = "{"
    /\ QuoteEnd(s, 2, 1) = Len(s)

NoSource == [none |-> TRUE, s |-> <<>>]
Source(s) == [none |-> FALSE, s |-> s]

\* a Template object: _source (None or text), name, _params
Template(src, nm, params) == [_source |-> src, name |-> nm, _params |-> params]

\* mutant: every parameter is written as key=value
SourceLinesKeyed(params, numeric_keys) ==
    [i \in 1..Len(params) |-> params[i][1] \o <<"=">> \o params[i][2]]

\* the `lines` built by the loop of the source property, after the name
RECURSIVE SourceLines(_, _)
SourceLines(params, numeric_keys) ==
    IF params = <<>> THEN <<>>
    ELSE LET key == params[1][1]
             value == params[1][2]
         IN IF IsDigits(key) /\ numeric_keys = int(key)
            THEN <<value>> \o SourceLines(Tail(params), numeric_keys + 1)
            ELSE <<key \o <<"=">> \o value>>
                 \o SourceLines(Tail(params), numeric_keys)

\* '|'.join(lines)
RECURSIVE Join(_)
Join(lines) ==
    IF lines = <<>> THEN <<>>
    ELSE IF Len(lines) = 1 THEN lines[1]
    ELSE lines[1] \o <<"|">> \o Join(Tail(lines))

\* the property _Template.source
TemplateSource(t) ==
    IF ~t._source.none THEN t._source.s
    ELSE <<"{", "{">>
         \o Join(<<t.name>> \o SourceLines(t._params, 1))
         \o <<"}", "}">>


----------------------------------------------------------------------------
\* Name filter: _make_filter (wikiapi/api.py)

\* a value passed as `name`: its Python type (kind) and its content
\*   b: the truth value of a bool; s: the text of a str, or the literal a
\*   compiled pattern matches as a prefix; m: the members of a tuple or
\*   set, or the names a one-argument predicate accepts
Filter(kind, b, s, m) == [kind |-> kind, b |-> b, s |-> s, m |-> m]
FilterNone == Filter("None", FALSE, <<>>, {})

\* the isinstance / hasattr test that guards `raise TypeError()` in
\* _make_filter: None, bool, str, Callable, or an object with `match`
\* (as on the Python versions that still have collections.Callable and
\* collections.Iterable, up to 3.9)
FilterTypeAccepted(f) ==
    f.kind \in {"None", "bool", "str", "callable", "pattern"}

IsPrefix(p, s) == Len(p) <= Len(s) /\ SubSeq(s, 1, Len(p)) = p

\* the closure _check(target) returned by _make_filter(name)
_check(f, target) ==
    IF f.kind = "None" THEN TRUE
    ELSE IF f.kind = "bool" THEN f.b
    ELSE IF f.kind = "str" THEN f.s = target
    ELSE IF f.kind = "tuple" THEN target \in f.m
    ELSE IF f.kind = "pattern" THEN IsPrefix(f.s, target)
    ELSE target \in f.m

----------------------------------------------------------------------------
\* Delimiter scanner and finder: _Template.finditer (wikiapi/api.py)

NoTemplate == [none |-> TRUE, t |-> Template(NoSource, <<>>, <<>>)]
SomeTemplate(t) == [none |-> FALSE, t |-> t]

\* char_iter = enumerate(zip(source, source[1:])) is exhausted at index k
Exhausted(s, k) == k + 1 >= Len(s)

\* the pair `chars` delivered at index k
Chars(s, k) == <<s[k + 1], s[k + 2]>>

IsOpen(chars) == chars = <<"{", "{">>

IsClose(chars) == chars = <<"}", "}">>

\* slice(a, b) < slice(c, d): slices order as the tuples (start, stop, step)
SliceLess(x, y) == x[1] < y[1] \/ (x[1] = y[1] /\ x[2] < y[2])

\* mutant: the closed slices stay in the order in which they closed
SortSlicesNone(l) == l

\* closed_templates.sort()
RECURSIVE SortSlices(_)
SortSlices(l) ==
    IF l = <<>> THEN <<>>
    ELSE LET m == CHOOSE i \in 1..Len(l) :
                      \A j \in 1..Len(l) : j = i \/ ~SliceLess(l[j], l[i])
             rest == [i \in 1..(Len(l) - 1) |-> IF i < m THEN l[i] ELSE l[i + 1]]
         IN <<l[m]>> \o SortSlices(rest)

\* mutant: the close delimiter at depth zero ends the scan without an error
CloseAtDepthZeroSilent == ""

\* what `if not unclosed_templates: raise ValueError(...)` does with a close
\* delimiter met while nothing is open
CloseAtDepthZero == "ValueError: Source has syntax error"

\* mutant: a span left open at the end of the buffer is reported as an error
AtStopIterationStrict(unclosed) ==
    IF unclosed # <<>> THEN "ValueError: Source has syntax error" ELSE ""

\* what the generator does when char_iter runs out: `except StopIteration: pass`
AtStopIteration(unclosed) == ""

\* an element of the yielded sequence: the Template and the slice it came from
Yielded(temp, t) == [span |-> temp, value |-> t]

\* t.source, read from a Template built from (name, params)
ReadSource ==
    /\ gen = "nosource"
    /\ source' = TemplateSource(tmpl.t)
    /\ gen' = "new"
    /\ UNCHANGED <<name_arg, tmpl, raised, char_iter, unclosed_templates,
                   closed_templates, temp_idx, yielded>>
    /\ UNCHANGED <<templateVars, resolverVars, tableVars>>

\* the call _Template.finditer(source, name) / templates_iter(name): Python
\* builds the generator object and runs none of the function's body
Call ==
    /\ gen = "new"
    /\ gen' = "created"
    /\ UNCHANGED <<source, name_arg, tmpl, raised, char_iter,
                   unclosed_templates, closed_templates, temp_idx, yielded>>
    /\ UNCHANGED <<templateVars, resolverVars, tableVars>>

\* the first next(): the body starts, a_filter = _make_filter(name)
Begin ==
    /\ gen = "created"
    /\ IF FilterTypeAccepted(name_arg)
       THEN gen' = "scan" /\ raised' = raised
       ELSE gen' = "raised" /\ raised' = "TypeError"
    /\ char_iter' = 0
    /\ unclosed_templates' = <<>>
    /\ closed_templates' = <<>>
    /\ UNCHANGED <<source, name_arg, tmpl, temp_idx, yielded>>
    /\ UNCHANGED <<templateVars, resolverVars, tableVars>>

\* the generator ends: normally, or with the exception e
Finish(e) ==
    /\ gen' = IF e = "" THEN "done" ELSE "raised"
    /\ raised' = e

\* one iteration of `while True`
ScanStep ==
    /\ gen = "scan"
    /\ IF Exhausted(source, char_iter) THEN
           /\ Finish(AtStopIteration(unclosed_templates))
           /\ UNCHANGED <<char_iter, unclosed_templates, closed_templates,
                          temp_idx>>
       ELSE LET char_no == char_iter
                chars == Chars(source, char_no)
            IN IF IsOpen(chars) THEN
                   /\ unclosed_templates' = Append(unclosed_templates, char_no)
                   /\ IF Exhausted(source, char_no + 1)
                      THEN Finish(AtStopIteration(unclosed_templates'))
                           /\ char_iter' = char_no + 1
                      ELSE char_iter' = char_no + 2
                           /\ UNCHANGED <<gen, raised>>
                   /\ UNCHANGED <<closed_templates, temp_idx>>
               ELSE IF IsClose(chars) THEN
                   IF unclosed_templates = <<>> THEN
                       /\ Finish(CloseAtDepthZero)
                       /\ char_iter' = char_no + 1
                       /\ UNCHANGED <<unclosed_templates, closed_templates,
                                      temp_idx>>
                   ELSE
                       LET start_charno ==
                               unclosed_templates[Len(unclosed_templates)]
                           popped == SubSeq(unclosed_templates, 1,
                                            Len(unclosed_templates) - 1)
                           closed == Append(closed_templates,
                                            <<start_charno, char_no + 2>>)
                       IN /\ unclosed_templates' = popped
                          /\ IF Exhausted(source, char_no + 1) THEN
                                 /\ Finish(AtStopIteration(popped))
                                 /\ char_iter' = char_no + 1
                                 /\ closed_templates' = closed
                                 /\ UNCHANGED temp_idx
                             ELSE IF popped # <<>> THEN
                                 /\ char_iter' = char_no + 2
                                 /\ closed_templates' = closed
                                 /\ UNCHANGED <<gen, raised, temp_idx>>
                             ELSE
                                 /\ char_iter' = char_no + 2
                                 /\ closed_templates' = SortSlices(closed)
                                 /\ temp_idx' = 1
                                 /\ gen' = "emit"
                                 /\ UNCHANGED raised
               ELSE
                   /\ char_iter' = char_no + 1
                   /\ UNCHANGED <<gen, raised, unclosed_templates,
                                  closed_templates, temp_idx>>
    /\ UNCHANGED <<source, name_arg, tmpl, yielded>>
    /\ UNCHANGED <<templateVars, resolverVars, tableVars>>

\* one iteration of `for temp in closed_templates`, or its end
EmitStep ==
    /\ gen = "emit"
    /\ IF temp_idx > Len(closed_templates) THEN
           /\ closed_templates' = <<>>
           /\ gen' = "scan"
           /\ UNCHANGED <<raised, temp_idx, yielded>>
       ELSE LET temp == closed_templates[temp_idx]
                text == Slice(source, temp[1], temp[2])
                np == _get_name_and_params(text)
            IN IF ~_check(name_arg, np[1]) THEN
                   /\ temp_idx' = temp_idx + 1
                   /\ UNCHANGED <<gen, raised, closed_templates, yielded>>
               ELSE IF ~TemplateRegexFullmatch(text) THEN
                   /\ Finish("ValueError: There is no template.")
                   /\ UNCHANGED <<closed_templates, temp_idx, yielded>>
               ELSE
                   /\ yielded' = Append(yielded,
                          Yielded(temp, Template(Source(text), np[1], np[2])))
                   /\ temp_idx' = temp_idx + 1
                   /\ UNCHANGED <<gen, raised, closed_templates>>
    /\ UNCHANGED <<source, name_arg, tmpl, char_iter, unclosed_templates>>
    /\ UNCHANGED <<templateVars, resolverVars, tableVars>>


----------------------------------------------------------------------------
\* Template construction from a span: _Template(source) (wikiapi/api.py)

NoObject == [state |-> "none", t |-> Template(NoSource, <<>>, <<>>)]

\* __init__(source) with name and params left None
Construct ==
    /\ obj.state = "none"
    /\ obj' = IF ~TemplateRegexFullmatch(arg)
              THEN [state |-> "ValueError: There is no template.",
                    t |-> Template(Source(arg), <<>>, <<>>)]
              ELSE LET np == _get_name_and_params(arg)
                   IN [state |-> "ok",
                       t |-> Template(Source(arg), np[1], np[2])]
    /\ UNCHANGED <<arg, canon, looked>>
    /\ UNCHANGED <<finderVars, resolverVars, tableVars>>

\* _Template(name=t.name, params=OrderedDict(t.items())).source: the text
\* synthesized from the name and the parameters of a parsed template
Resynthesize ==
    /\ obj.state = "ok"
    /\ canon.none
    /\ canon' = Source(TemplateSource(
                     Template(NoSource, obj.t.name, obj.t._params)))
    /\ UNCHANGED <<arg, obj, looked>>
    /\ UNCHANGED <<finderVars, resolverVars, tableVars>>

\* a key handed to the read interface: a Python int or a str
IntKey(n) == [kind |-> "int", n |-> n, s |-> <<>>]
StrKey(s) == [kind |-> "str", n |-> 0, s |-> s]

\* what a lookup gives back: a value, None, or a KeyError
Found(v) == [result |-> "value", v |-> v]
NoneResult == [result |-> "None", v |-> <<>>]
KeyErrorResult == [result |-> "KeyError", v |-> <<>>]

\* `if isinstance(key, int): key = str(key)`
CoerceKey(key) == IF key.kind = "int" THEN StrKey(str(key.n)) ELSE key

\* `key in self._params` on the dict of str keys: an int equals no str
ParamsHas(params, key) == key.kind = "str" /\ DictHas(params, key.s)

\* key in t
__contains__(t, key) == ParamsHas(t._params, key)

\* t[key]
__getitem__(t, key) ==
    LET k == CoerceKey(key)
    IN IF ParamsHas(t._params, k) THEN Found(DictGet(t._params, k.s))
       ELSE KeyErrorResult

\* t.get(key)
get(t, key) ==
    LET k == CoerceKey(key)
    IN IF ParamsHas(t._params, k) THEN Found(DictGet(t._params, k.s))
       ELSE NoneResult

\* the keys looked up: ints and strs, present and absent ones
LookupKeys ==
    {IntKey(n) : n \in 0..3}
    \cup {StrKey(<<"1">>), StrKey(<<"a">>), StrKey(<<"x">>)}

NoLookup ==
    [none |-> TRUE, key |-> StrKey(<<>>), contains |-> FALSE,
     item |-> NoneResult, got |-> NoneResult, item_str |-> NoneResult]

\* `key in t`, t[key], t.get(key) and t[str(key)] on a parsed template
Lookup ==
    /\ obj.state = "ok"
    /\ looked.none
    /\ \E key \in LookupKeys :
           looked' = [none |-> FALSE, key |-> key,
                      contains |-> __contains__(obj.t, key),
                      item |-> __getitem__(obj.t, key),
                      got |-> get(obj.t, key),
                      item_str |-> __getitem__(obj.t, CoerceKey(key))]
    /\ UNCHANGED <<arg, obj, canon>>
    /\ UNCHANGED <<finderVars, resolverVars, tableVars>>

----------------------------------------------------------------------------
\* Infobox chain resolver: _Wikipage.parse_infoboxes2 and
\* check_template_name (wikisearch.py)

NoName == [none |-> TRUE, s |-> <<>>]
Name(s) == [none |-> FALSE, s |-> s]

\* what the provider does with a title: the page is missing, it has a
\* source, or the request itself fails (urlopen raises in call_api)
Missing == [missing |-> TRUE, error |-> FALSE, source |-> <<>>]
Page(src) == [missing |-> FALSE, error |-> FALSE, source |-> src]
Failing == [missing |-> FALSE, error |-> TRUE, source |-> <<>>]

TemplatePrefix == <<"T", "e", "m", "p", "l", "a", "t", "e", ":">>
InfoboxPrefix == <<"I", "n", "f", "o", "b", "o", "x">>

\* mutant: the name has to be exactly 'Infobox'
StartsWithInfoboxExact(n) == n = InfoboxPrefix

\* name.startswith('Infobox')
StartsWithInfobox(n) == IsPrefix(InfoboxPrefix, n)

\* find_page(title): the page-source provider; an unknown title is missing
find_page(prov, title) ==
    IF title \in DOMAIN prov THEN prov[title] ELSE Missing

\* the group ([^|{}]*) read from position p
RECURSIVE NameGroup(_, _)
NameGroup(s, p) ==
    IF p >= Len(s) \/ s[p + 1] \in {"|", "{", "}"} THEN <<>>
    ELSE <<s[p + 1]>> \o NameGroup(s, p + 1)

\* find_page('Template:' + template_name) raises
FetchFails(prov, tname) == find_page(prov, TemplatePrefix \o tname).error

\* check_template_name(template_name): the name of the template the page
\* Template:<template_name> starts with, or None
check_template_name(prov, tname) ==
    LET page == find_page(prov, TemplatePrefix \o tname)
    IN IF page.missing THEN NoName
       ELSE IF ~IsPrefix(<<"{", "{">>, page.source) THEN NoName
       ELSE Name(rstrip(NameGroup(page.source, 2)))

\* `if name in non_infobox_templates`
InNegativeCache(n, cache) == n \in cache

\* mutant: only the name visited last is kept
VisitLast(check, n) == {n}

\* check_templates.add(name)
Visit(check, n) == check \cup {n}

\* mutant: the set a call left behind is taken over by the next call
NewCacheKept(previous) == previous

\* non_infobox_templates = set(): the cache a call of parse_infoboxes2
\* starts with, whatever the previous call left behind
NewCache(previous) == {}

\* mutant: the visited names are added whatever the outcome
NegativeCacheAfterAlways(cache, check, flag) == cache \cup check

\* `if not infobox_flag: non_infobox_templates.update(check_templates)`
NegativeCacheAfter(cache, check, flag) ==
    IF ~flag THEN cache \cup check ELSE cache

\* `if not name` after the fetch
NotName(n) == n.none \/ n.s = <<>>

\* the names the regex of parse_infoboxes2 may find on a page, and the
\* pages the provider may hold
NameA == <<"A">>
NameB == <<"B">>
NameC == <<"C">>
NameASpace == <<"A", " ">>
NameInfoboxX == <<"I", "n", "f", "o", "b", "o", "x", " ", "X">>
BoxNames == {NameA, NameB, NameC, NameASpace, NameInfoboxX}

PageSources ==
    { <<"{", "{", "A", "}", "}">>,
      <<"{", "{", "B", " ", "|", "x", "}", "}">>,
      <<"{", "{", "I", "n", "f", "o", "b", "o", "x", " ", "X", "|", "a", "}", "}">>,
      <<"x", "{", "{", "B", "}", "}">> }

Titles == {TemplatePrefix \o n : n \in {NameA, NameB, NameC}}

Providers ==
    [Titles -> {Missing, Failing} \cup {Page(src) : src \in PageSources}]

BoxSeqs == Texts(BoxNames, MaxBoxes)

\* parse_infoboxes2() starts on a page: regex.finditer finds the boxes and
\* non_infobox_templates = set()
StartParse ==
    /\ pc = "idle"
    /\ \E bs \in BoxSeqs : boxes' = bs
    /\ non_infobox_templates' = NewCache(non_infobox_templates)
    /\ results' = <<>>
    /\ pc' = "for"
    /\ UNCHANGED <<provider, template_name, name, check_templates,
                   infobox_flag, fetches>>
    /\ UNCHANGED <<finderVars, templateVars, tableVars>>

\* `for box in infoboxes`: the next box, or the end of the generator
NextBox ==
    /\ pc = "for"
    /\ IF boxes = <<>> THEN
           /\ pc' = "idle"
           /\ UNCHANGED <<boxes, template_name, name, check_templates,
                          infobox_flag, fetches>>
       ELSE
           /\ infobox_flag' = TRUE
           /\ check_templates' = {}
           /\ template_name' = Head(boxes)
           /\ name' = Name(Head(boxes))
           /\ boxes' = Tail(boxes)
           /\ fetches' = 0
           /\ pc' = "while"
    /\ UNCHANGED <<provider, non_infobox_templates, results>>
    /\ UNCHANGED <<finderVars, templateVars, tableVars>>

\* one test of `while not name.startswith('Infobox')` and, when it
\* passes, one run of the loop body; fetches counts the provider calls of
\* this resolution up to MaxFetches and stays there; an exception of the
\* provider leaves the generator, nothing in it catches
LoopStep ==
    /\ pc = "while"
    /\ IF StartsWithInfobox(name.s) THEN
           /\ pc' = "resolved"
           /\ UNCHANGED <<name, check_templates, infobox_flag, fetches>>
       ELSE IF InNegativeCache(name.s, non_infobox_templates) THEN
           /\ infobox_flag' = FALSE
           /\ pc' = "resolved"
           /\ UNCHANGED <<name, check_templates, fetches>>
       ELSE
           /\ check_templates' = Visit(check_templates, name.s)
           /\ fetches' = IF fetches < MaxFetches THEN fetches + 1 ELSE fetches
           /\ IF FetchFails(provider, rstrip(name.s)) THEN
                  /\ pc' = "raised"
                  /\ UNCHANGED <<name, infobox_flag>>
              ELSE
                  /\ name' = check_template_name(provider, rstrip(name.s))
                  /\ IF NotName(name')
                     THEN infobox_flag' = FALSE /\ pc' = "resolved"
                     ELSE UNCHANGED <<infobox_flag, pc>>
    /\ UNCHANGED <<provider, boxes, template_name, non_infobox_templates,
                   results>>
    /\ UNCHANGED <<finderVars, templateVars, tableVars>>

\* after the loop: a negative outcome feeds the cache, a positive one is
\* yielded
EndResolution ==
    /\ pc = "resolved"
    /\ non_infobox_templates' =
           NegativeCacheAfter(non_infobox_templates, check_templates,
                              infobox_flag)
    /\ results' = Append(results, [template_name |-> template_name,
                                   infobox |-> infobox_flag,
                                   fetches |-> fetches])
    /\ pc' = "for"
    /\ UNCHANGED <<provider, boxes, template_name, name, check_templates,
                   infobox_flag, fetches>>
    /\ UNCHANGED <<finderVars, templateVars, tableVars>>

----------------------------------------------------------------------------
\* HTML table: Table and Cell (tableparser.py)

\* soup.caption and soup.thead: None, or the tag
NoCaption == [none |-> TRUE, s |-> <<>>]
Caption(s) == [none |-> FALSE, s |-> s]
NoThead == [none |-> TRUE, trs |-> <<>>]
Thead(trs) == [none |-> FALSE, trs |-> trs]

\* a <th> or <td> tag: its name, its colspan and rowspan attributes and its
\* stripped strings put together
Td(nm, colspan, rowspan, strings) ==
    [name |-> nm, colspan |-> colspan, rowspan |-> rowspan,
     strings |-> strings]

\* a node next to the table: its name ("" for a text node) and its
\* stripped strings put together
Sibling(nm, strings) == [name |-> nm, strings |-> strings]

\* Cell(soup, in_thead)
Cell(td, in_thead) ==
    [soup |-> td, dx |-> td.colspan, dy |-> td.rowspan, in_thead |-> in_thead]

is_header(cell) == cell.in_thead \/ cell.soup.name = "th"

\* str(cell)
CellStr(cell) == cell.soup.strings

\* `while (y, x) in self.table_map: x += 1`
RECURSIVE SkipTaken(_, _, _)
SkipTaken(map, y, x) ==
    IF <<y, x>> \in DOMAIN map THEN SkipTaken(map, y, x + 1) ELSE x

\* table_map[p] = cell for p in product(range(y, y + dy), range(x, x + dx))
PutCell(map, y, x, cell) ==
    LET area == (y..(y + cell.dy - 1)) \X (x..(x + cell.dx - 1))
    IN [p \in (DOMAIN map) \cup area |-> IF p \in area THEN cell ELSE map[p]]

\* `for td in tds` in row y, from the i-th tag on: the map and x at its end
RECURSIVE AddRow(_, _, _, _, _, _)
AddRow(map, y, tds, i, x, header_flag) ==
    IF i > Len(tds) THEN [map |-> map, x |-> x]
    ELSE LET at == SkipTaken(map, y, x)
             cell == Cell(tds[i], header_flag)
         IN AddRow(PutCell(map, y, at, cell), y, tds, i + 1, at + cell.dx,
                   header_flag)

\* `for y, tr in enumerate(trs, start=...)` from the i-th row on
RECURSIVE AddRows(_, _, _, _, _, _)
AddRows(map, start, trs, i, x, header_flag) ==
    IF i > Len(trs) THEN [map |-> map, x |-> x]
    ELSE LET r == AddRow(map, start + i - 1, trs[i], 1, 0, header_flag)
         IN AddRows(r.map, start, trs, i + 1, r.x, header_flag)

\* _add_cells(trs, header_flag) on the table t
_add_cells(t, trs, header_flag) ==
    LET r == AddRows(t.table_map, t.table_size[1], trs, 1, 0, header_flag)
    IN [table_map |-> r.map,
        table_size |-> <<t.table_size[1] + Len(trs), r.x>>]

\* __init__ and _parse_table(soup)
_parse_table(table) ==
    LET t0 == [table_map |-> <<>>, table_size |-> <<0, 0>>]
        t1 == IF table.thead.none THEN t0
              ELSE _add_cells(t0, table.thead.trs, TRUE)
    IN _add_cells(t1, table.trs, FALSE)

\* what get_title gives back: a text, or the KeyError of table_map[...]
TitleText(s) == [error |-> "", s |-> s]
TitleKeyError == [error |-> "KeyError", s |-> <<>>]

\* re.match(r'h[1-6]$', target.name)
IsHeading(nm) == nm \in {"h1", "h2", "h3", "h4", "h5", "h6"}

\* the walk over previous_sibling from the i-th node on: the heading found
\* before the list ends or a table is met, or None
RECURSIVE PreviousHeading(_, _)
PreviousHeading(previous, i) ==
    IF i > Len(previous) \/ previous[i].name = "table" THEN NoCaption
    ELSE IF IsHeading(previous[i].name) THEN Caption(previous[i].strings)
    ELSE PreviousHeading(previous, i + 1)

\* "\t".join(str(table_map[(0, x)]) for x in range(x, table_size[1]))
RECURSIVE FirstRow(_, _, _)
FirstRow(map, x, width) ==
    IF x >= width THEN <<>>
    ELSE CellStr(map[<<0, x>>])
         \o (IF x + 1 < width THEN <<"\t">> ELSE <<>>)
         \o FirstRow(map, x + 1, width)

\* get_title(length=0)
FullTitle(sp, map, size) ==
    IF ~sp.caption.none THEN TitleText(sp.caption.s)
    ELSE IF <<0, 0>> \notin DOMAIN map THEN TitleKeyError
    ELSE IF is_header(map[<<0, 0>>]) /\ map[<<0, 0>>].dx = size[2]
         THEN TitleText(CellStr(map[<<0, 0>>]))
    ELSE LET h == PreviousHeading(sp.previous, 1)
         IN IF ~h.none THEN TitleText(h.s)
            ELSE IF \E x \in 0..(size[2] - 1) : <<0, x>> \notin DOMAIN map
                 THEN TitleKeyError
            ELSE TitleText(FirstRow(map, 0, size[2]))

\* s[0:b] of Python, b of either sign
SliceTo(s, b) ==
    IF b >= 0 THEN Slice(s, 0, b)
    ELSE IF Len(s) + b > 0 THEN Slice(s, 0, Len(s) + b) ELSE <<>>

\* get_title(length)
get_title(sp, map, size, n) ==
    LET full == FullTitle(sp, map, size)
    IN IF n = 0 \/ full.error # "" THEN full
       ELSE IF Len(full.s) <= n THEN full
       ELSE TitleText(SliceTo(full.s, n - 3) \o <<".", ".", ".">>)

\* Table(soup)
ParseTable ==
    /\ tpc = "new"
    /\ LET t == _parse_table(soup)
       IN table_map' = t.table_map /\ table_size' = t.table_size
    /\ tpc' = "parsed"
    /\ UNCHANGED <<soup, length, return_txt>>
    /\ UNCHANGED <<finderVars, templateVars, resolverVars>>

\* table.get_title(length)
GetTitle ==
    /\ tpc = "parsed"
    /\ \E n \in 0..MaxLength :
           /\ length' = n
           /\ return_txt' = get_title(soup, table_map, table_size, n)
    /\ tpc' = "titled"
    /\ UNCHANGED <<soup, table_map, table_size>>
    /\ UNCHANGED <<finderVars, templateVars, resolverVars>>

----------------------------------------------------------------------------
\* Inputs

FinderAlphabet == {"{", "}", "a"}
BoundedSources == Texts(FinderAlphabet, MaxSourceLen)

SrcExtraClose == <<"{", "{", "t", "|", "a", "}", "}", "}", "}">>
SrcMissingClose == <<"{", "{", "t", "|", "a">>
SrcTwoTemplates == <<"{", "{", "a", "}", "}", " ", "{", "{", "b", "|", "c", "}", "}", " ", "x">>
SrcNested == <<"{", "{", "a", "{", "{", "b", "}", "}", "c", "}", "}", " ">>
SrcCloseAtEnd == <<"x", "{", "{", "a", "}", "}">>
SrcThreeNames == <<"{", "{", "a", "|", "1", "}", "}", "{", "{", "b", "}", "}", "{", "{", "a", "b", "}", "}", "{", "{", "c", "}", "}", " ">>
ExampleSources == {SrcExtraClose, SrcMissingClose, SrcTwoTemplates, SrcNested,
                   SrcCloseAtEnd, SrcThreeNames}

TextA == <<"a">>
TextB == <<"b">>
TextAB == <<"a", "b">>
Filters ==
    { FilterNone,
      Filter("bool", TRUE, <<>>, {}),
      Filter("bool", FALSE, <<>>, {}),
      Filter("str", FALSE, TextA, {}),
      Filter("tuple", FALSE, <<>>, {TextA, TextB}),
      Filter("set", FALSE, <<>>, {TextA, TextB}),
      Filter("pattern", FALSE, TextA, {}),
      Filter("callable", FALSE, <<>>, {TextB, TextAB}),
      Filter("int", FALSE, <<>>, {}) }

\* Templates built from an explicit (name, params) pair: trimmed name,
\* distinct trimmed keys
ParamKeys == {<<"1">>, <<"2">>, <<"x">>}
ParamValues == {<<"a">>, <<"b", " ", "c">>}
TemplateNames == {<<"t">>, NameInfoboxX}
ParamLists ==
    {ps \in Texts(ParamKeys \X ParamValues, MaxParams) :
        \A i, j \in 1..Len(ps) : i # j => ps[i][1] # ps[j][1]}
ExplicitTemplates ==
    {Template(NoSource, n, ps) : n \in TemplateNames, ps \in ParamLists}

InteriorAlphabet == {"a", "|", "=", "{", "}", "[", "]", " "}
SpanNestedBrackets == <<"{", "{", "t", "|", "a", "=", "[", "[", "F", "o", "o", "|", "B", "a", "r", "]", "]", "|", "b", "=", "{", "{", "x", "|", "1", "}", "}", "}", "}">>
SpanDuplicateKey == <<"{", "{", "t", "|", "x", "=", "1", "|", "y", "=", "2", "|", "x", "=", "3", "}", "}">>
SpanPositional == <<"{", "{", "t", "|", "a", "|", "b", "|", "c", "}", "}">>
SpanEqualsInName == <<"{", "{", "t", "=", "x", "|", "a", "}", "}">>
SpanSpecNested == <<"{", "{", "t", "m", "p", "l", "|", "a", "=", "{", "{", "x", "|", "y", "}", "}", "|", "b", "=", "[", "[", "c", "|", "d", "]", "]", "}", "}">>
SpanOutOfOrder == <<"{", "{", "t", "|", "2", "=", "a", "|", "b", "}", "}">>
SpanWhitespace == <<"{", "{", " ", "t", " ", "|", " ", "=", "v", "|", "k", " ", "=", " ", "w", " ", "}", "}">>
ExampleSpans == {SpanNestedBrackets, SpanDuplicateKey, SpanPositional,
                 SpanEqualsInName, SpanSpecNested, SpanWhitespace,
                 SpanOutOfOrder}
TemplateArgs ==
    {<<"{", "{">> \o i \o <<"}", "}">> :
        i \in Texts(InteriorAlphabet, MaxInteriorLen)} \cup ExampleSpans

\* Tables: every cell is a th or td with spans from Spans and the text ab;
\* the rows are not empty and hold MaxCells cells at most together
Spans == {1, 2}
CellText == <<"a", "b">>
Tds == {Td(nm, dx, dy, CellText) : nm \in {"th", "td"}, dx \in Spans, dy \in Spans}

\* the lists of non-empty rows with k cells in all
RECURSIVE RowLists(_)
RowLists(k) ==
    IF k = 0 THEN {<<>>}
    ELSE UNION {{<<r>> \o rest : r \in [1..j -> Tds], rest \in RowLists(k - j)} :
                j \in 1..k}

AllRowLists == UNION {RowLists(k) : k \in 0..MaxCells}

\* the first row may stand in a thead
TableBodies ==
    {[thead |-> NoThead, trs |-> rows] : rows \in AllRowLists}
    \cup {[thead |-> Thead(<<rows[1]>>), trs |-> Tail(rows)] :
             rows \in AllRowLists \ {<<>>}}

CaptionTexts == {<<>>, <<"a", "b", "c">>, <<"a", "b", "c", "d", "e", "f", "g", "h">>}
HeadingText == <<"H", "e", "a", "d">>
PreviousLists ==
    { <<>>,
      <<Sibling("", <<>>), Sibling("h2", HeadingText)>>,
      <<Sibling("p", <<"x">>), Sibling("table", <<>>), Sibling("h2", HeadingText)>>,
      <<Sibling("h7", HeadingText)>> }

MakeSoup(c, b, p) ==
    [caption |-> c, thead |-> b.thead, trs |-> b.trs, previous |-> p]

\* <tr><td/><td rowspan=2/></tr><tr><td colspan=2/></tr>: the second row
\* starts left of the position the rowspan of the first row has taken
BodyRowspanThenColspan ==
    [thead |-> NoThead,
     trs |-> << <<Td("td", 1, 1, CellText), Td("td", 1, 2, CellText)>>,
                <<Td("td", 2, 1, CellText)>> >>]

\* <tr><td rowspan=2/><td/></tr><tr><td/></tr>: the second row starts on
\* the position the rowspan has taken and moves past it
BodyRowspanSkipped ==
    [thead |-> NoThead,
     trs |-> << <<Td("td", 1, 2, CellText), Td("td", 1, 1, CellText)>>,
                <<Td("td", 1, 1, CellText)>> >>]

ExampleBodies == {BodyRowspanThenColspan, BodyRowspanSkipped}

\* a table with a caption, or a table without one next to some nodes
Soups ==
    {MakeSoup(Caption(c), b, <<>>) :
         c \in CaptionTexts,
         b \in {x \in TableBodies : x.thead.none /\ Len(x.trs) <= 1}}
    \cup {MakeSoup(NoCaption, b, p) : b \in TableBodies, p \in PreviousLists}
    \cup {MakeSoup(NoCaption, b, <<>>) : b \in ExampleBodies}

----------------------------------------------------------------------------
\* Specifications

FinderOff ==
    /\ source = <<>> /\ name_arg = FilterNone /\ tmpl = NoTemplate
    /\ gen = "off" /\ raised = "" /\ char_iter = 0
    /\ unclosed_templates = <<>> /\ closed_templates = <<>>
    /\ temp_idx = 0 /\ yielded = <<>>

TemplateOff ==
    /\ arg = <<>>
    /\ obj = [state |-> "off", t |-> Template(NoSource, <<>>, <<>>)]
    /\ canon = NoSource
    /\ looked = NoLookup

ResolverOff ==
    /\ provider = [t \in Titles |-> Missing]
    /\ boxes = <<>> /\ pc = "off" /\ template_name = <<>>
    /\ name = NoName /\ check_templates = {}
    /\ non_infobox_templates = {} /\ infobox_flag = TRUE
    /\ fetches = 0 /\ results = <<>>

TableOff ==
    /\ soup = MakeSoup(NoCaption, [thead |-> NoThead, trs |-> <<>>], <<>>)
    /\ table_map = <<>> /\ table_size = <<0, 0>>
    /\ tpc = "off" /\ length = 0 /\ return_txt = TitleText(<<>>)

\* the finder: a bounded source with no filter, an example source with any
\* filter, or a Template built from (name, params) whose source is re-parsed
Init ==
    /\ \/ /\ source \in BoundedSources
          /\ name_arg = FilterNone
          /\ tmpl = NoTemplate
          /\ gen = "new"
       \/ /\ source \in ExampleSources
          /\ name_arg \in Filters
          /\ tmpl = NoTemplate
          /\ gen = "new"
       \/ /\ source = <<>>
          /\ name_arg = FilterNone
          /\ tmpl \in {SomeTemplate(t) : t \in ExplicitTemplates}
          /\ gen = "nosource"
    /\ raised = "" /\ char_iter = 0
    /\ unclosed_templates = <<>> /\ closed_templates = <<>>
    /\ temp_idx = 0 /\ yielded = <<>>
    /\ TemplateOff /\ ResolverOff /\ TableOff

Next == ReadSource \/ Call \/ Begin \/ ScanStep \/ EmitStep

Spec == Init /\ [][Next]_vars

\* the template value
TemplateInit ==
    /\ arg \in TemplateArgs
    /\ obj = NoObject
    /\ canon = NoSource
    /\ looked = NoLookup
    /\ FinderOff /\ ResolverOff /\ TableOff

TemplateNext == Construct \/ Resynthesize \/ Lookup

TemplateSpec == TemplateInit /\ [][TemplateNext]_vars

\* the infobox chain resolver
ResolverInit ==
    /\ provider \in Providers
    /\ boxes = <<>> /\ pc = "idle" /\ template_name = <<>>
    /\ name = NoName /\ check_templates = {}
    /\ non_infobox_templates = {} /\ infobox_flag = TRUE
    /\ fetches = 0 /\ results = <<>>
    /\ FinderOff /\ TemplateOff /\ TableOff

ResolverNext == StartParse \/ NextBox \/ LoopStep \/ EndResolution

ResolverSpec == ResolverInit /\ [][ResolverNext]_vars

\* the table
TableInit ==
    /\ soup \in Soups
    /\ table_map = <<>> /\ table_size = <<0, 0>>
    /\ tpc = "new" /\ length = 0 /\ return_txt = TitleText(<<>>)
    /\ FinderOff /\ TemplateOff /\ ResolverOff

TableNext == ParseTable \/ GetTitle

TableSpec == TableInit /\ [][TableNext]_vars

----------------------------------------------------------------------------
\* Reference notions used by the properties

Terminal == gen \in {"done", "raised"}

SyntaxError == "ValueError: Source has syntax error"

\* the text from position p on is a run of non-brace characters and
\* complete {{...}} groups
RECURSIVE WellFormedFrom(_, _)
WellFormedFrom(s, p) ==
    IF p >= Len(s) THEN TRUE
    ELSE IF p + 1 < Len(s) /\ s[p + 1] = "{" /\ s[p + 2] = "{"
         THEN LET e == QuoteEnd(s, p + 2, 1)
              IN e # -1 /\ WellFormedFrom(s, e)
    ELSE IF IsBrace(s[p + 1]) THEN FALSE
    ELSE WellFormedFrom(s, p + 1)

\* the top-level spans of a well-formed text, left to right
RECURSIVE TopLevelSpans(_, _)
TopLevelSpans(s, p) ==
    IF p >= Len(s) THEN <<>>
    ELSE IF p + 1 < Len(s) /\ s[p + 1] = "{" /\ s[p + 2] = "{"
         THEN LET e == QuoteEnd(s, p + 2, 1)
              IN <<<<p, e>>>> \o TopLevelSpans(s, e)
    ELSE TopLevelSpans(s, p + 1)

YieldedSpans == [i \in 1..Len(yielded) |-> yielded[i].span]

\* C1: for a text of N balanced top-level spans the finder without a filter
\* ends normally having yielded exactly those N spans, left to right
ClaimC1 ==
    (Terminal /\ tmpl.none /\ name_arg.kind = "None"
       /\ WellFormedFrom(source, 0))
    => (gen = "done" /\ YieldedSpans = TopLevelSpans(source, 0))

\* the {{ }} and [[ ]] constructs of s nest properly: stack holds the
\* constructs open at position p
RECURSIVE WellNestedFrom(_, _, _)
WellNestedFrom(s, p, stack) ==
    IF p >= Len(s) THEN stack = <<>>
    ELSE IF p + 1 < Len(s) /\ s[p + 1] = s[p + 2] /\ s[p + 1] \in {"{", "["}
         THEN WellNestedFrom(s, p + 2, Append(stack, s[p + 1]))
    ELSE IF p + 1 < Len(s) /\ s[p + 1] = s[p + 2] /\ s[p + 1] \in {"}", "]"}
         THEN /\ stack # <<>>
              /\ stack[Len(stack)] = (IF s[p + 1] = "}" THEN "{" ELSE "[")
              /\ WellNestedFrom(s, p + 2, SubSeq(stack, 1, Len(stack) - 1))
    ELSE WellNestedFrom(s, p + 1, stack)

WellNested(s) == WellNestedFrom(s, 0, <<>>)

Interior(s) == Slice(s, 2, Len(s) - 2)

\* C2: no pipe or equals sign inside a nested {{...}} or [[...]] separates:
\* every parameter value of a properly nested span is properly nested, and
\* {{t|a=[[Foo|Bar]]|b={{x|1}}}} gives a = [[Foo|Bar]], b = {{x|1}}
ClaimC2 ==
    obj.state = "ok" =>
        /\ WellNested(Interior(arg)) =>
               \A i \in 1..Len(obj.t._params) : WellNested(obj.t._params[i][2])
        /\ arg = SpanNestedBrackets =>
               obj.t._params = << <<<<"a">>, <<"[", "[", "F", "o", "o", "|", "B", "a", "r", "]", "]">>>>, <<<<"b">>, <<"{", "{", "x", "|", "1", "}", "}">>>> >>

\* the ordered map with last-write-wins and move-to-end
RECURSIVE MoveToEnd(_)
MoveToEnd(pairs) ==
    IF pairs = <<>> THEN <<>>
    ELSE LET p == pairs[Len(pairs)]
             d == MoveToEnd(SubSeq(pairs, 1, Len(pairs) - 1))
             kept == SelectSeq(d, LAMBDA e : e[1] # p[1].s)
         IN Append(kept, <<p[1].s, p[2]>>)

\* C3: keys are unique, and a parameter that repeats a key replaces the
\* value and moves to the end: {{t|x=1|y=2|x=3}} gives y=2, x=3
ClaimC3 ==
    obj.state = "ok" =>
        /\ \A i, j \in 1..Len(obj.t._params) :
               i # j => obj.t._params[i][1] # obj.t._params[j][1]
        /\ obj.t._params = MoveToEnd(Tail(_split_params(Interior(arg))))
        /\ arg = SpanDuplicateKey =>
               obj.t._params = << <<<<"y">>, <<"2">>>>, <<<<"x">>, <<"3">>>> >>

\* C4: when the chain of a resolution comes back to a name it has already
\* visited, the resolution ends there with a negative result and no
\* further fetch
ClaimC4 ==
    [][(pc = "while" /\ ~name.none /\ name.s \in check_templates)
       => (pc' = "resolved" /\ ~infobox_flag' /\ fetches' = fetches)]_vars

\* Template:A starts with an invocation of B, Template:B with one of Infobox X
ChainProvider ==
    /\ check_template_name(provider, NameA) = Name(NameB)
    /\ check_template_name(provider, NameB) = Name(NameInfoboxX)

ResolvedBefore(n) ==
    \E i \in 1..Len(results) : results[i].template_name = n

\* C5 as stated: resolving A succeeds, and a later resolution of A or B
\* makes no provider fetch
ClaimC5 ==
    (ChainProvider /\ pc = "resolved" /\ template_name \in {NameA, NameB})
    => /\ infobox_flag
       /\ ResolvedBefore(NameA) => fetches = 0

\* C5 amended: resolving A succeeds after exactly two fetches, resolving B
\* after exactly one, every time: a success is not memoized
TheoremC5 ==
    (ChainProvider /\ pc = "resolved")
    => /\ template_name = NameA => (infobox_flag /\ fetches = 2)
       /\ template_name = NameB => (infobox_flag /\ fetches = 1)

WitnessC5 ==
    /\ ChainProvider /\ pc = "resolved"
    /\ template_name = NameB /\ infobox_flag /\ fetches = 1
    /\ results = <<[template_name |-> NameA, infobox |-> TRUE, fetches |-> 2]>>

\* C6: a close delimiter met while nothing is open raises ValueError at
\* once and is not skipped; iterating over {{t|a}}}} raises
TheoremC6 ==
    /\ [][(gen = "scan" /\ ~Exhausted(source, char_iter)
             /\ IsClose(Chars(source, char_iter))
             /\ unclosed_templates = <<>>)
          => (gen' = "raised" /\ raised' = SyntaxError
                /\ yielded' = yielded)]_vars
    /\ []((source = SrcExtraClose /\ FilterTypeAccepted(name_arg))
          => (gen # "done" /\ (gen = "raised" => raised = SyntaxError)))

WitnessC6 ==
    /\ source = SrcExtraClose /\ name_arg = FilterNone
    /\ gen = "raised" /\ raised = SyntaxError
    /\ Len(yielded) = 1 /\ yielded[1].span = <<0, 7>>

\* C7: while a span opened at depth zero is open no step yields or raises,
\* and when the buffer ends with the span still open the finder ends
\* normally and nothing it yielded lies in that span; {{t|a gives nothing
TheoremC7 ==
    /\ [][unclosed_templates # <<>>
          => (raised' = "" /\ yielded' = yielded)]_vars
    /\ []((gen = "done" /\ unclosed_templates # <<>>)
          => \A i \in 1..Len(yielded) :
                 yielded[i].span[2] <= unclosed_templates[1])
    /\ []((source = SrcMissingClose /\ FilterTypeAccepted(name_arg) /\ Terminal)
          => (gen = "done" /\ yielded = <<>>))
    /\ []((Terminal /\ unclosed_templates # <<>>) => gen = "done")

WitnessC7 ==
    /\ gen = "done" /\ raised = ""
    /\ unclosed_templates # <<>> /\ closed_templates # <<>>
    /\ yielded = <<>>

\* C8: a Template built from (name, params), synthesized to text and parsed
\* again by the finder, comes back with the same name and parameters
ClaimC8 ==
    (~tmpl.none /\ Terminal)
    => /\ gen = "done"
       /\ Len(yielded) = 1
       /\ yielded[1].value.name = tmpl.t.name
       /\ yielded[1].value._params = tmpl.t._params

\* what each kind of filter is meant to accept
Passes(f, target) ==
    IF f.kind = "None" THEN TRUE
    ELSE IF f.kind = "bool" THEN f.b
    ELSE IF f.kind = "str" THEN f.s = target
    ELSE IF f.kind \in {"tuple", "set"} THEN target \in f.m
    ELSE IF f.kind = "pattern" THEN IsPrefix(f.s, target)
    ELSE target \in f.m

FilterKinds == {"None", "bool", "str", "tuple", "set", "pattern", "callable"}

\* C9: none, bool, str, set or tuple, pattern and predicate are all accepted
\* as filters, and a template is yielded exactly when its name passes
ClaimC9 ==
    /\ [](name_arg.kind \in FilterKinds => raised # "TypeError")
    /\ [][(gen = "emit" /\ temp_idx <= Len(closed_templates)
             /\ name_arg.kind \in FilterKinds /\ raised' = "")
          => ((yielded' # yielded) <=>
                Passes(name_arg,
                   _get_name_and_params(
                       Slice(source, closed_templates[temp_idx][1],
                             closed_templates[temp_idx][2]))[1]))]_vars

\* C10: with a filter of an unsupported type the call itself raises: no
\* generator is ever handed back
ClaimC10 ==
    name_arg.kind = "int" => gen # "created"

----------------------------------------------------------------------------
\* Parameter keys and the template name against the top-level structure

\* the nesting depth of each character of s from position p on, d
\* constructs being open there; delimiters count as inside their construct
RECURSIVE Depths(_, _, _)
Depths(s, p, d) ==
    IF p >= Len(s) THEN <<>>
    ELSE IF p + 1 < Len(s) /\ s[p + 1] = s[p + 2] /\ s[p + 1] \in {"{", "["}
         THEN <<d + 1, d + 1>> \o Depths(s, p + 2, d + 1)
    ELSE IF p + 1 < Len(s) /\ s[p + 1] = s[p + 2] /\ s[p + 1] \in {"}", "]"}
              /\ d > 0
         THEN <<d, d>> \o Depths(s, p + 2, d - 1)
    ELSE <<d>> \o Depths(s, p + 1, d)

\* the positions (counted from 1) where character c stands at depth zero
TopLevel(s, c) == {p \in 1..Len(s) : s[p] = c /\ Depths(s, 0, 0)[p] = 0}

\* the segments s[a:b] between the top-level separators, from start on
RECURSIVE SegmentsFrom(_, _)
SegmentsFrom(s, start) ==
    LET later == {p \in TopLevel(s, "|") : p > start}
    IN IF later = {} THEN << <<start, Len(s)>> >>
       ELSE LET p == CHOOSE q \in later : \A r \in later : q <= r
            IN << <<start, p - 1>> >> \o SegmentsFrom(s, p)

\* a segment is positional when it has no top-level equals sign or nothing
\* but whitespace before its first one
SegmentKey(s, seg) ==
    LET eqs == {q \in TopLevel(s, "=") : seg[1] < q /\ q <= seg[2]}
    IN IF eqs = {} THEN <<>>
       ELSE LET q == CHOOSE e \in eqs : \A r \in eqs : e <= r
            IN strip(Slice(s, seg[1], q - 1))

\* the keys of the segments i.. when counter positional ones came before
RECURSIVE ExpectedKeys(_, _, _, _)
ExpectedKeys(s, segs, i, counter) ==
    IF i > Len(segs) THEN <<>>
    ELSE LET k == SegmentKey(s, segs[i])
         IN IF k = <<>>
            THEN <<str(counter)>> \o ExpectedKeys(s, segs, i + 1, counter + 1)
            ELSE <<k>> \o ExpectedKeys(s, segs, i + 1, counter)

\* C11: the parameters of a properly nested span get, in encounter order,
\* the keys "1", "2", ... where they are positional (no top-level equals
\* sign, or an empty key before it) and their own key otherwise; the counter
\* moves over positional slots only and no key is the empty string
ClaimC11 ==
    (obj.state = "ok" /\ WellNested(Interior(arg))) =>
        LET text == Interior(arg)
            raw == Tail(_split_params(text))
        IN /\ \A i \in 1..Len(raw) : ~NotKey(raw[i][1])
           /\ [i \in 1..Len(raw) |-> raw[i][1].s]
                  = ExpectedKeys(text, SegmentsFrom(text, 0), 2, 1)

\* C14: the name of a properly nested span is the trimmed text from the
\* opening delimiter to the first top-level separator, or to the close
\* delimiter when there is none, also when that text holds an equals sign:
\* {{t=x|a}} is named t=x
ClaimC14 ==
    (obj.state = "ok" /\ WellNested(Interior(arg))) =>
        LET text == Interior(arg)
            first == SegmentsFrom(text, 0)[1]
        IN /\ obj.t.name = strip(Slice(text, first[1], first[2]))
           /\ arg = SpanEqualsInName => obj.t.name = <<"t", "=", "x">>

----------------------------------------------------------------------------
\* Which spans the finder surfaces

Disjoint(x, y) == x[2] <= y[1] \/ y[2] <= x[1]

\* span y lies in the interior of span x
Inside(y, x) == x[1] + 2 <= y[1] /\ y[2] + 2 <= x[2]

ClaimC19 ==
    /\ (gen = "done" /\ unclosed_templates = <<>>) => closed_templates = <<>>
    /\ (Terminal /\ source = SrcCloseAtEnd /\ name_arg = FilterNone)
           => Len(yielded) = 1

----------------------------------------------------------------------------
\* The negative cache of the resolver

\* a chain walks through at most one page per title before it repeats
ChainFuel == Cardinality(Titles) + 2

\* the names a resolution starting at n tests and fetches when nothing is
\* cached
RECURSIVE ChainNames(_, _)
ChainNames(n, fuel) ==
    IF StartsWithInfobox(n) \/ fuel = 0 THEN {}
    ELSE LET next == check_template_name(provider, rstrip(n))
         IN {n} \cup (IF FetchFails(provider, rstrip(n)) \/ NotName(next)
                      THEN {}
                      ELSE ChainNames(next.s, fuel - 1))

\* the chain starting at n comes to a name with the Infobox prefix
RECURSIVE ReachesInfobox(_, _)
ReachesInfobox(n, fuel) ==
    IF StartsWithInfobox(n) THEN TRUE
    ELSE IF fuel = 0 \/ FetchFails(provider, rstrip(n)) THEN FALSE
    ELSE LET next == check_template_name(provider, rstrip(n))
         IN ~NotName(next) /\ ReachesInfobox(next.s, fuel - 1)

\* C15: after a resolution has ended negatively every name of its chain,
\* not only the last one, is in the negative cache, and a later resolution
\* of the same parse_infoboxes2 run that starts from a cached name ends
\* negatively without a provider fetch
TheoremC15 ==
    /\ \A i \in 1..Len(results) :
           ~results[i].infobox =>
               ChainNames(results[i].template_name, ChainFuel)
                   \subseteq non_infobox_templates
    /\ (pc = "resolved" /\ template_name \in non_infobox_templates)
           => (~infobox_flag /\ fetches = 0)

WitnessC15 ==
    /\ pc = "resolved" /\ template_name = NameB
    /\ ~infobox_flag /\ fetches = 0
    /\ results = <<[template_name |-> NameA, infobox |-> FALSE, fetches |-> 2]>>

ClaimC17 ==
    /\ [](pc # "raised")
    /\ [][(pc = "while" /\ ~StartsWithInfobox(name.s)
             /\ ~InNegativeCache(name.s, non_infobox_templates)
             /\ FetchFails(provider, rstrip(name.s)))
          => (pc' = "resolved" /\ ~infobox_flag'
                /\ name.s \in check_templates')]_vars

\* C20: the negative cache never holds a name that has the Infobox prefix
\* or whose chain reaches one, so a resolution that ends gives, whatever
\* the cache holds, the outcome of the chain walked with an empty cache
TheoremC20 ==
    /\ \A n \in non_infobox_templates :
           ~StartsWithInfobox(n) /\ ~ReachesInfobox(n, ChainFuel)
    /\ pc = "resolved"
           => (infobox_flag <=> ReachesInfobox(template_name, ChainFuel))

WitnessC20 ==
    /\ pc = "resolved" /\ infobox_flag /\ fetches = 2
    /\ template_name = NameA
    /\ results = <<[template_name |-> NameC, infobox |-> FALSE, fetches |-> 1]>>
    /\ non_infobox_templates = {NameC}

----------------------------------------------------------------------------
\* Canonical text

\* which parameters are written bare: the one whose key is the number of
\* bare values written before it plus one
BareFlags(params) ==
    CHOOSE f \in [1..Len(params) -> BOOLEAN] :
        \A i \in 1..Len(params) :
            f[i] <=> /\ IsDigits(params[i][1])
                     /\ int(params[i][1])
                            = Cardinality({j \in 1..(i - 1) : f[j]}) + 1

\* the parameters i.. written one after the other, each behind a pipe
RECURSIVE PipedFrom(_, _, _)
PipedFrom(params, f, i) ==
    IF i > Len(params) THEN <<>>
    ELSE <<"|">>
         \o (IF f[i] THEN params[i][2]
             ELSE params[i][1] \o <<"=">> \o params[i][2])
         \o PipedFrom(params, f, i + 1)

\* C18: the text synthesized from a name and parameters is {{, the name,
\* then per parameter in map order a pipe and the bare value when its key is
\* the next expected positional number, key=value otherwise, then }};
\* {{t|a|b|c}} parsed and synthesized again is {{t|a|b|c}}
TheoremC18 ==
    ~canon.none =>
        /\ canon.s = <<"{", "{">> \o obj.t.name
                     \o PipedFrom(obj.t._params, BareFlags(obj.t._params), 1)
                     \o <<"}", "}">>
        /\ arg = SpanPositional => canon.s = SpanPositional

WitnessC18 ==
    /\ arg = SpanOutOfOrder /\ obj.state = "ok"
    /\ canon = Source(SpanOutOfOrder)

----------------------------------------------------------------------------
\* The title of a table

\* C13: get_title(length) with length > 0 gives a text of at most length
\* characters, and get_title(0) gives the title in full, the text every
\* longer limit gives
ClaimC13 ==
    (tpc = "titled" /\ return_txt.error = "") =>
        /\ length > 0 => Len(return_txt.s) <= length
        /\ length = 0 =>
               \A n \in 1..MaxLength :
                   LET limited == get_title(soup, table_map, table_size, n)
                   IN Len(return_txt.s) <= n => limited = return_txt

----------------------------------------------------------------------------
\* The read interface of a template

\* C21: an integer key is treated like its string form by every read:
\* k in t holds exactly when t[k] succeeds, and then t[k], t.get(k) and
\* t[str(k)] are the same value
ClaimC21 ==
    (~looked.none /\ looked.key.kind = "int") =>
        /\ looked.contains <=> looked.item.result = "value"
        /\ looked.item.result = "value" =>
               (looked.got = looked.item /\ looked.item_str = looked.item)

----------------------------------------------------------------------------
\* The grid of a table

\* the positions the cells of the rows i.. ask for: rowspan x colspan each
RECURSIVE RowArea(_, _)
RowArea(tds, i) ==
    IF i > Len(tds) THEN 0
    ELSE tds[i].rowspan * tds[i].colspan + RowArea(tds, i + 1)

RECURSIVE RowsArea(_, _)
RowsArea(trs, i) ==
    IF i > Len(trs) THEN 0
    ELSE RowArea(trs[i], 1) + RowsArea(trs, i + 1)

\* C22: once the rows are processed every cell holds rowspan x colspan
\* positions of table_map, none of them taken over by a later cell: the
\* map has as many positions as the cells ask for together
ClaimC22 ==
    tpc \in {"parsed", "titled"} =>
        Cardinality(DOMAIN table_map)
            = RowsArea(soup.thead.trs, 1) + RowsArea(soup.trs, 1)

====
